---- MODULE Spec2Model ----
(***************************************************************************)
(* The access-control core of the jammer API.  The repository holds two    *)
(* server files, src/API_node.js and src/unnamed/part_000; both define the *)
(* same routes over the same tables.  impl says which of the two serves    *)
(* the requests.  Every await of a handler is one step of the model: a     *)
(* request record holds the position of its handler (pc), the collaborator *)
(* calls it has issued (calls) and, once answered, its status and rows.    *)
(***************************************************************************)
EXTENDS Integers, Sequences, FiniteSets, TLC

\* Serial ids handed out by the store for the two tables.
MaxEstab == 2
MaxJammers == 2

Impls == {"API_node", "part_000"}
Clients == {"c1", "c2"}
Names == {"a", "b"}

VARIABLES impl, users, estabelecimento, jammers, nextEstab, nextJammer, authUsers,
          req, snap

store == <<users, estabelecimento, jammers, nextEstab, nextJammer, authUsers>>
vars == <<impl, users, estabelecimento, jammers, nextEstab, nextJammer, authUsers,
          req, snap>>

----------------------------------------------------------------------------
\* Identity provider: the identities it knows and the tokens it has issued.

ValidTokens == {"t1", "t2", "t3"}
AllTokens == ValidTokens \cup {"expired"}

TokenUser(t) ==
  CASE t = "t1" -> "u1"
    [] t = "t2" -> "u2"
    [] t = "t3" -> "u3"

Identities == {TokenUser(t) : t \in ValidTokens}

\* users rows present before any request: u1 is an administrator, u2 is not,
\* and identity u3 has no users row at all.
InitUsers ==
  { [id |-> "u1", email |-> "u1@x.io", is_admin |-> "true"],
    [id |-> "u2", email |-> "u2@x.io", is_admin |-> "false"] }

\* The identities registered at the provider before any request.
InitAuth ==
  { [id |-> "u1", email |-> "u1@x.io"],
    [id |-> "u2", email |-> "u2@x.io"],
    [id |-> "u3", email |-> "u3@x.io"] }

\* An Authorization header: absent, or a text made of chunks.
Headers ==
  { [present |-> FALSE, text |-> <<>>],
    [present |-> TRUE, text |-> <<"Bearer ">>] }
  \cup { [present |-> TRUE, text |-> <<"Bearer ", t>>] : t \in AllTokens }

\* String.prototype.replace(x, ''): drops the first occurrence of x.
RECURSIVE replace(_, _)
replace(s, x) ==
  IF s = <<>> THEN <<>>
  ELSE IF Head(s) = x THEN Tail(s)
  ELSE <<Head(s)>> \o replace(Tail(s), x)

\* The token the handlers extract from a present header.
tokenOf(hdr) == replace(hdr.text, "Bearer ")

\* supabase.auth.getUser(token): the identity of a token the provider issued,
\* an error for anything else.
getUser(token) ==
  IF Len(token) = 1 /\ token[1] \in ValidTokens
  THEN [user |-> TokenUser(token[1]), error |-> FALSE]
  ELSE [user |-> "", error |-> TRUE]

----------------------------------------------------------------------------
\* Store helpers (PostgREST through supabase-js).

TheRow(S) == CHOOSE x \in S : TRUE

\* .single(): exactly one row or an error.
single(rows) ==
  IF Cardinality(rows) = 1
  THEN [data |-> rows, error |-> FALSE]
  ELSE [data |-> {}, error |-> TRUE]

\* A call that came back with an error value.
Failed == [data |-> {}, error |-> TRUE]

\* Ascending order of the strings the store sorts on (names and emails).
StrOrder == <<"a", "b", "n@x.io", "u1@x.io", "u2@x.io", "u3@x.io">>
StrRank(x) == CHOOSE i \in 1..Len(StrOrder) : StrOrder[i] = x

LeId(r1, r2) == r1.id <= r2.id
LeNome(r1, r2) == StrRank(r1.nome) <= StrRank(r2.nome)
LeEmail(r1, r2) == StrRank(r1.email) <= StrRank(r2.email)

\* Comparison of two rows on the column the query orders by.
Le(column, r1, r2) ==
  CASE column = "id" -> LeId(r1, r2)
    [] column = "nome" -> LeNome(r1, r2)
    [] column = "email" -> LeEmail(r1, r2)

\* .order(column, { ascending: true }): all the ways to list the rows S in
\* ascending order (rows with equal keys come in either order).
OrderBy(S, column) ==
  { f \in [1..Cardinality(S) -> S] :
      /\ \A i, j \in 1..Cardinality(S) : i # j => f[i] # f[j]
      /\ \A i, j \in 1..Cardinality(S) : i < j => Le(column, f[i], f[j]) }

\* How a collaborator call can end: with its result, with an error value, or
\* by throwing (a network failure).
Outcomes == {"ok", "err", "throw"}

----------------------------------------------------------------------------
\* Requests.

AuthRoutes == {"POST /signup", "POST /reset-password"}

\* The e-mail addresses of the requests, and how each one is spelled.
Emails == {"", "n@x", "n @x.io", "u2@x.io", "u3@x.io", "n@x.io"}

Chars(email) ==
  CASE email = "" -> <<>>
    [] email = "n@x" -> <<"n", "@", "x">>
    [] email = "n @x.io" -> <<"n", " ", "@", "x", ".", "i", "o">>
    [] email = "u1@x.io" -> <<"u", "1", "@", "x", ".", "i", "o">>
    [] email = "u2@x.io" -> <<"u", "2", "@", "x", ".", "i", "o">>
    [] email = "u3@x.io" -> <<"u", "3", "@", "x", ".", "i", "o">>
    [] email = "n@x.io" -> <<"n", "@", "x", ".", "i", "o">>

\* /^[^\s@]+@[^\s@]+\.[^\s@]+$/.test(email)
validateEmail(email) ==
  LET t == Chars(email) IN
  \E i, j \in 1..Len(t) :
    /\ t[i] = "@"
    /\ t[j] = "."
    /\ 1 < i
    /\ i + 1 < j
    /\ j < Len(t)
    /\ \A k \in 1..Len(t) : k # i => t[k] \notin {"@", " "}

\* The passwords of the requests: none, five characters, six characters.
Passwords ==
  { <<>>, <<"s", "e", "n", "h", "a">>, <<"s", "e", "n", "h", "a", "1">> }

UserRoutes ==
  { "GET /user/:userId/estabelecimentos",
    "GET /user/:userId/estabelecimentos-completo",
    "GET /estabelecimento/:estabelecimentoId/jammers",
    "PATCH /jammer/:jammerId" }

AdminRoutes ==
  { "GET /admin/usuarios",
    "POST /admin/estabelecimento",
    "POST /admin/jammer",
    "GET /admin/estabelecimentos",
    "GET /admin/jammers",
    "DELETE /admin/estabelecimento/:id",
    "DELETE /admin/jammer/:id" }

Routes == UserRoutes \cup AdminRoutes

NoParams ==
  [ uid |-> "", id |-> 0, estado |-> "undefined", nome |-> "", cep |-> "",
    email |-> "", password |-> <<>>, access_token |-> "" ]

\* The path parameters and body fields a request to route rt may carry.  A
\* missing body field is "" (or 0 for an id, or "undefined" for the state).
Params(rt) ==
  CASE rt \in { "GET /user/:userId/estabelecimentos",
                "GET /user/:userId/estabelecimentos-completo" } ->
         { [NoParams EXCEPT !.uid = u] : u \in Identities }
    [] rt \in { "GET /estabelecimento/:estabelecimentoId/jammers",
                "DELETE /admin/estabelecimento/:id" } ->
         { [NoParams EXCEPT !.id = i] : i \in 1..MaxEstab }
    [] rt = "DELETE /admin/jammer/:id" ->
         { [NoParams EXCEPT !.id = i] : i \in 1..MaxJammers }
    [] rt = "PATCH /jammer/:jammerId" ->
         { [NoParams EXCEPT !.id = i, !.estado = e] :
             i \in 1..MaxJammers, e \in {"true", "false"} }
         \cup { [NoParams EXCEPT !.id = 1] }
    [] rt = "POST /admin/estabelecimento" ->
         { [NoParams EXCEPT !.uid = "u1", !.nome = "a", !.cep = "c"],
           [NoParams EXCEPT !.uid = "u2", !.nome = "a", !.cep = "c"],
           [NoParams EXCEPT !.uid = "u2", !.nome = "b", !.cep = "c"],
           [NoParams EXCEPT !.uid = "u3", !.nome = "a", !.cep = "c"],
           [NoParams EXCEPT !.nome = "a", !.cep = "c"] }
    [] rt = "POST /admin/jammer" ->
         { [NoParams EXCEPT !.id = i, !.estado = e] :
             i \in 1..MaxEstab, e \in {"true", "undefined"} }
         \cup { NoParams }
    [] rt = "POST /signup" ->
         { [NoParams EXCEPT !.email = e, !.password = p] :
             e \in Emails, p \in Passwords }
    [] rt = "POST /reset-password" ->
         { [NoParams EXCEPT !.access_token = t, !.password = p] :
             t \in {"", "t2", "expired"}, p \in Passwords }
    [] OTHER -> { NoParams }

Idle ==
  [ route |-> "", hdr |-> [present |-> FALSE, text |-> <<>>],
    uid |-> "", id |-> 0, estado |-> "undefined", nome |-> "", cep |-> "",
    email |-> "", password |-> <<>>, access_token |-> "",
    pc |-> "idle", user |-> "", pend |-> {}, acc |-> {},
    status |-> 0, rows |-> <<>>, msg |-> "", total |-> 0,
    calls |-> <<>>, fail |-> FALSE, prevStatus |-> 0 ]

\* res.status(st).json(...): the request is answered.
Reply(r, st, rows) == [r EXCEPT !.pc = "done", !.status = st, !.rows = rows]

\* The handler issues collaborator call op and awaits it.
Call(r, op) == [r EXCEPT !.pc = op, !.calls = Append(@, op)]

\* A collaborator call of the request ended with outcome out.
Mark(r, out) == [r EXCEPT !.fail = @ \/ (out # "ok")]

\* res.status(st).json({ error: msg }).
ReplyError(r, st, msg) == [r EXCEPT !.pc = "done", !.status = st, !.msg = msg]

\* Every handler and middleware wraps its body in try/catch and answers 500.
Catch(r) == Reply(r, 500, <<>>)


----------------------------------------------------------------------------
\* Authentication and administrator middleware.

IsAdminRoute(rt) == rt \in AdminRoutes

\* part_000: if (!authHeader) return 401.
authHeaderMissing(hdr) == ~hdr.present \/ hdr.text = <<>>

\* API_node: token = authorization?.replace('Bearer ', ''); if (!token) 401.
tokenMissing(hdr) == ~hdr.present \/ tokenOf(hdr) = <<>>

\* part_000 verificarAutenticacao, up to its await of getUser.
verificarAutenticacao(r) ==
  IF authHeaderMissing(r.hdr) THEN Reply(r, 401, <<>>) ELSE Call(r, "getUser")

\* part_000 verificarAdmin, up to its await of getUser.
verificarAdmin_part000(r) ==
  IF authHeaderMissing(r.hdr) THEN Reply(r, 401, <<>>) ELSE Call(r, "getUser")

\* API_node verificarAdmin, up to its await of getUser.
verificarAdmin_API_node(r) ==
  IF tokenMissing(r.hdr) THEN Reply(r, 401, <<>>) ELSE Call(r, "getUser")

\* The self-path comparison of the two /user/:userId routes.
selfPathDenied(r) == r.user # r.uid

\* The body of a route handler once the caller is authenticated (and, on an
\* admin route, found to be an administrator), up to its first await.
Handler(r) ==
  CASE r.route = "GET /user/:userId/estabelecimentos" ->
         IF selfPathDenied(r) THEN Reply(r, 403, <<>>) ELSE Call(r, "estab.list")
    [] r.route = "GET /user/:userId/estabelecimentos-completo" ->
         IF selfPathDenied(r) THEN Reply(r, 403, <<>>) ELSE Call(r, "estab.listFull")
    [] r.route = "GET /estabelecimento/:estabelecimentoId/jammers" ->
         Call(r, "estab.owner")
    [] r.route = "PATCH /jammer/:jammerId" ->
         IF impl = "part_000" /\ r.estado = "undefined"
         THEN Reply(r, 400, <<>>)
         ELSE Call(r, "patch.select")
    [] r.route = "GET /admin/usuarios" -> Call(r, "admin.usuarios")
    [] r.route = "POST /admin/estabelecimento" ->
         IF r.uid = "" \/ r.nome = "" \/ r.cep = ""
         THEN Reply(r, 400, <<>>)
         ELSE Call(r, "admin.estab.user")
    [] r.route = "POST /admin/jammer" ->
         IF r.id = 0 THEN Reply(r, 400, <<>>) ELSE Call(r, "admin.jammer.estab")
    [] r.route = "GET /admin/estabelecimentos" -> Call(r, "admin.estabs")
    [] r.route = "GET /admin/jammers" -> Call(r, "admin.jammers")
    [] r.route = "DELETE /admin/estabelecimento/:id" -> Call(r, "del.estab.jammers")
    [] r.route = "DELETE /admin/jammer/:id" -> Call(r, "del.jammer")

\* API_node: the routes that carry their own token check, or none, from the
\* arrival of the request up to the first await.
Inline_API_node(r) ==
  CASE r.route = "GET /user/:userId/estabelecimentos" ->
         IF tokenMissing(r.hdr) THEN Reply(r, 401, <<>>) ELSE Call(r, "getUser")
    [] r.route = "GET /user/:userId/estabelecimentos-completo" ->
         Call(r, "completo.estabs")
    [] r.route = "GET /estabelecimento/:estabelecimentoId/jammers" ->
         Call(r, "jammers.byEstab")
    [] r.route = "PATCH /jammer/:jammerId" ->
         IF r.estado = "undefined" THEN Reply(r, 400, <<>>)
         ELSE IF tokenMissing(r.hdr) THEN Reply(r, 401, <<>>)
         ELSE Call(r, "getUser")

----------------------------------------------------------------------------
\* POST /signup and POST /reset-password (the same in both files), up to the
\* first await.  They run without middleware.

\* signupValidate without the test of the password's length.
signupValidate_noLength(r) ==
  IF r.email = "" \/ r.password = <<>>
  THEN ReplyError(r, 400, "E-mail e senha sao obrigatorios.")
  ELSE IF ~validateEmail(r.email) THEN ReplyError(r, 400, "E-mail invalido.")
  ELSE Call(r, "signup.exists")

\* POST /signup before its first await.
signupValidate(r) ==
  IF r.email = "" \/ r.password = <<>>
  THEN ReplyError(r, 400, "E-mail e senha sao obrigatorios.")
  ELSE IF ~validateEmail(r.email) THEN ReplyError(r, 400, "E-mail invalido.")
  ELSE IF Len(r.password) < 6
       THEN ReplyError(r, 400, "A senha deve ter no minimo 6 caracteres.")
  ELSE Call(r, "signup.exists")

\* POST /reset-password before its first await.
resetValidate(r) ==
  IF r.access_token = "" \/ r.password = <<>>
  THEN ReplyError(r, 400, "Token e nova senha sao obrigatorios.")
  ELSE IF Len(r.password) < 6
       THEN ReplyError(r, 400, "A senha deve ter no minimo 6 caracteres.")
  ELSE Call(r, "reset.setSession")

AuthArrive(r) ==
  IF r.route = "POST /signup" THEN signupValidate(r) ELSE resetValidate(r)

\* A request arrives: the code that runs before the first await.
Arrive(r) ==
  IF r.route \in AuthRoutes THEN AuthArrive(r)
  ELSE IF impl = "part_000"
  THEN IF IsAdminRoute(r.route) THEN verificarAdmin_part000(r)
       ELSE verificarAutenticacao(r)
  ELSE IF IsAdminRoute(r.route) THEN verificarAdmin_API_node(r)
       ELSE Inline_API_node(r)

\* After getUser: if (error || !user) 401; otherwise the principal is set and
\* the admin lookup or the route body follows.
afterGetUser(r, res) ==
  IF res.error \/ res.user = "" THEN Reply(r, 401, <<>>)
  ELSE LET r2 == [r EXCEPT !.user = res.user]
       IN IF IsAdminRoute(r.route) THEN Call(r2, "users.is_admin")
          ELSE Handler(r2)

\* part_000 verificarAdmin after the users lookup.
adminCheck_part000(r, res) ==
  IF res.error THEN Reply(r, 500, <<>>)
  ELSE IF res.data = {} \/ TheRow(res.data).is_admin # "true"
       THEN Reply(r, 403, <<>>)
       ELSE Handler(r)

\* API_node verificarAdmin after the users lookup.
adminCheck_API_node(r, res) ==
  IF res.error \/ res.data = {} \/ TheRow(res.data).is_admin # "true"
  THEN Reply(r, 403, <<>>)
  ELSE Handler(r)

----------------------------------------------------------------------------
\* Initial state and request arrival.

Snapshot ==
  [ users |-> users, estabelecimento |-> estabelecimento, jammers |-> jammers,
    authUsers |-> authUsers ]

Init ==
  /\ impl \in Impls
  /\ users = InitUsers
  /\ estabelecimento = {}
  /\ jammers = {}
  /\ nextEstab = 1
  /\ nextJammer = 1
  /\ authUsers = InitAuth
  /\ req = [c \in Clients |-> Idle]
  /\ snap = [ users |-> InitUsers, estabelecimento |-> {}, jammers |-> {},
              authUsers |-> InitAuth ]

\* A request may be sent when the serial ids it could consume are not
\* exhausted.
CanSend(rt) ==
  /\ rt = "POST /admin/estabelecimento" => nextEstab <= MaxEstab
  /\ rt = "POST /admin/jammer" => nextJammer <= MaxJammers

\* The request rt with header h and parameters p reaches the server and runs
\* up to its first await.
Receive(c, rt, h, p) ==
  /\ req[c].pc = "idle"
  /\ CanSend(rt)
  /\ req' = [req EXCEPT ![c] =
               Arrive([Idle EXCEPT !.route = rt, !.hdr = h, !.uid = p.uid,
                                   !.id = p.id, !.estado = p.estado,
                                   !.nome = p.nome, !.cep = p.cep,
                                   !.email = p.email, !.password = p.password,
                                   !.access_token = p.access_token,
                                   !.pc = "start"])]
  /\ UNCHANGED <<impl, store>>

\* A client sends the request rt with header h and parameters p; snap keeps
\* the tables as they are when it arrives.
Send(c, rt, h, p) == Receive(c, rt, h, p) /\ snap' = Snapshot

\* A client sends any request.
Start(c) == \E rt \in Routes, h \in Headers : \E p \in Params(rt) : Send(c, rt, h, p)

\* A client whose request has succeeded sends the same request again;
\* prevStatus keeps the status of the first answer.
Repeat(c) ==
  /\ req[c].pc = "done"
  /\ req[c].status \in {200, 201}
  /\ CanSend(req[c].route)
  /\ req' = [req EXCEPT ![c] =
               Arrive([Idle EXCEPT !.route = req[c].route, !.hdr = req[c].hdr,
                                   !.uid = req[c].uid, !.id = req[c].id,
                                   !.estado = req[c].estado, !.nome = req[c].nome,
                                   !.cep = req[c].cep, !.email = req[c].email,
                                   !.password = req[c].password,
                                   !.access_token = req[c].access_token,
                                   !.pc = "start",
                                   !.prevStatus = req[c].status])]
  /\ snap' = Snapshot
  /\ UNCHANGED <<impl, store>>

\* The answer has been delivered; the client may send something else.
Finish(c) ==
  /\ req[c].pc = "done"
  /\ req' = [req EXCEPT ![c] = Idle]
  /\ snap' = Snapshot
  /\ UNCHANGED <<impl, store>>

getUserReturn(c) ==
  /\ req[c].pc = "getUser"
  /\ \E out \in Outcomes :
       LET r == Mark(req[c], out)
           res == IF out = "ok" THEN getUser(tokenOf(r.hdr)) ELSE [user |-> "", error |-> TRUE]
       IN req' = [req EXCEPT ![c] = IF out = "throw" THEN Catch(r) ELSE afterGetUser(r, res)]
  /\ UNCHANGED <<impl, store, snap>>

isAdminReturn(c) ==
  /\ req[c].pc = "users.is_admin"
  /\ \E out \in Outcomes :
       LET r == Mark(req[c], out)
           res == IF out = "ok" THEN single({u \in users : u.id = r.user}) ELSE Failed
       IN req' = [req EXCEPT ![c] =
                    IF out = "throw" THEN Catch(r)
                    ELSE IF impl = "part_000" THEN adminCheck_part000(r, res)
                    ELSE adminCheck_API_node(r, res)]
  /\ UNCHANGED <<impl, store, snap>>

----------------------------------------------------------------------------
\* GET /user/:userId/estabelecimentos (both files) after the select.

estabList(c) ==
  /\ req[c].pc = "estab.list"
  /\ \E out \in Outcomes :
       LET r == Mark(req[c], out) IN
       \E list \in OrderBy({e \in estabelecimento : e.user_id = r.uid}, "nome") :
         req' = [req EXCEPT ![c] =
                   IF out = "throw" THEN Catch(r)
                   ELSE IF out = "err" THEN Reply(r, 500, <<>>)
                   ELSE Reply(r, 200, list)]
  /\ UNCHANGED <<impl, store, snap>>

\* The jammers embedded in an establishment row, with their count.
withJammers(e, js) ==
  [id |-> e.id, user_id |-> e.user_id, nome |-> e.nome, cep |-> e.cep,
   jammers |-> js, total_jammers |-> Len(js)]

\* reduce((acc, e) => acc + e.total_jammers, 0)
RECURSIVE reduceTotal(_)
reduceTotal(rows) ==
  IF rows = <<>> THEN 0 ELSE rows[1].total_jammers + reduceTotal(Tail(rows))

\* The answer of the bulk read: the rows and the sum of their totals.
ReplyCompleto(r, rows) == [Reply(r, 200, rows) EXCEPT !.total = reduceTotal(rows)]

\* part_000 GET /user/:userId/estabelecimentos-completo after the select with
\* jammers embedded.
estabListFull(c) ==
  /\ req[c].pc = "estab.listFull"
  /\ \E out \in Outcomes :
       LET r == Mark(req[c], out) IN
       \E list \in OrderBy({e \in estabelecimento : e.user_id = r.uid}, "nome") :
         req' = [req EXCEPT ![c] =
                   IF out = "throw" THEN Catch(r)
                   ELSE IF out = "err" THEN Reply(r, 500, <<>>)
                   ELSE ReplyCompleto(r,
                          [i \in 1..Len(list) |->
                             withJammers(list[i],
                               TheRow(OrderBy({j \in jammers :
                                  j.id_estabelecimento = list[i].id}, "id")))])]
  /\ UNCHANGED <<impl, store, snap>>

\* API_node GET /user/:userId/estabelecimentos-completo after the select of
\* the establishments: one jammers lookup per establishment is issued, all at
\* once (Promise.all).
completoEstabs(c) ==
  /\ req[c].pc = "completo.estabs"
  /\ \E out \in Outcomes :
       LET r == Mark(req[c], out) IN
       \E list \in OrderBy({e \in estabelecimento : e.user_id = r.uid}, "nome") :
         req' = [req EXCEPT ![c] =
                   IF out = "throw" THEN Catch(r)
                   ELSE IF out = "err" THEN Reply(r, 500, <<>>)
                   ELSE IF list = <<>> THEN ReplyCompleto(r, <<>>)
                   ELSE [r EXCEPT !.pc = "completo.jammers",
                                  !.rows = list,
                                  !.pend = {list[i].id : i \in 1..Len(list)},
                                  !.acc = {},
                                  !.calls = @ \o [i \in 1..Len(list) |-> "completo.jammers"]]]
  /\ UNCHANGED <<impl, store, snap>>

\* completoJoin giving every establishment the jammers of one lookup.
completoJoin_oneLookup(list, acc) ==
  [i \in 1..Len(list) |->
     withJammers(list[i], (CHOOSE a \in acc : \A b \in acc : a.id <= b.id).jammers)]

\* The answer of the bulk read once every lookup has come back: the
\* establishments in the order of the first select, each with its jammers.
completoJoin(list, acc) ==
  [i \in 1..Len(list) |->
     withJammers(list[i], (CHOOSE a \in acc : a.id = list[i].id).jammers)]

\* One of the pending jammers lookups of the bulk read comes back.
completoJammers(c) ==
  /\ req[c].pc = "completo.jammers"
  /\ \E e \in req[c].pend, out \in Outcomes :
       LET r == Mark(req[c], out)
           js == IF out = "ok"
                 THEN TheRow(OrderBy({j \in jammers : j.id_estabelecimento = e}, "id"))
                 ELSE <<>>
           acc2 == r.acc \cup {[id |-> e, jammers |-> js]}
           pend2 == r.pend \ {e}
       IN req' = [req EXCEPT ![c] =
                    IF out = "throw" THEN Catch([r EXCEPT !.pend = {}, !.acc = {}])
                    ELSE IF pend2 = {}
                         THEN ReplyCompleto([r EXCEPT !.pend = {}, !.acc = {}],
                                            completoJoin(r.rows, acc2))
                         ELSE [r EXCEPT !.pend = pend2, !.acc = acc2]]
  /\ UNCHANGED <<impl, store, snap>>

\* part_000 GET /estabelecimento/:id/jammers after the select of the
\* establishment's user_id.
estabOwnerCheck(r, res) ==
  IF res.error \/ res.data = {} THEN Reply(r, 404, <<>>)
  ELSE IF TheRow(res.data).user_id # r.user THEN Reply(r, 403, <<>>)
  ELSE Call(r, "jammers.byEstab")

estabOwner(c) ==
  /\ req[c].pc = "estab.owner"
  /\ \E out \in Outcomes :
       LET r == Mark(req[c], out)
           res == IF out = "ok" THEN single({e \in estabelecimento : e.id = r.id}) ELSE Failed
       IN req' = [req EXCEPT ![c] = IF out = "throw" THEN Catch(r) ELSE estabOwnerCheck(r, res)]
  /\ UNCHANGED <<impl, store, snap>>

\* GET /estabelecimento/:id/jammers after the select of the jammers (the only
\* call of the route in API_node, the second one in part_000).
jammersByEstab(c) ==
  /\ req[c].pc = "jammers.byEstab"
  /\ \E out \in Outcomes :
       LET r == Mark(req[c], out) IN
       \E list \in OrderBy({j \in jammers : j.id_estabelecimento = r.id}, "id") :
         req' = [req EXCEPT ![c] =
                   IF out = "throw" THEN Catch(r)
                   ELSE IF out = "err" THEN Reply(r, 500, <<>>)
                   ELSE Reply(r, 200, list)]
  /\ UNCHANGED <<impl, store, snap>>

----------------------------------------------------------------------------
\* PATCH /jammer/:jammerId.

\* select('*, estabelecimento(user_id)'): the jammer with its parent embedded.
jammerWithParent(j) ==
  [id |-> j.id, id_estabelecimento |-> j.id_estabelecimento,
   estado_jammer |-> j.estado_jammer,
   estabelecimento |-> {e \in estabelecimento : e.id = j.id_estabelecimento}]

\* patchCheck without the comparison of the parent's user_id with the caller.
patchCheck_noOwnership(r, res) ==
  IF res.error \/ res.data = {} THEN Reply(r, 404, <<>>)
  ELSE Call(r, "patch.update")

\* patchCheck letting an administrator through whoever owns the parent.
patchCheck_adminBypass(r, res) ==
  IF res.error \/ res.data = {} THEN Reply(r, 404, <<>>)
  ELSE IF TheRow(res.data).estabelecimento = {} THEN Catch(r)
  ELSE IF /\ TheRow(TheRow(res.data).estabelecimento).user_id # r.user
          /\ ~ \E u \in users : u.id = r.user /\ u.is_admin = "true"
       THEN Reply(r, 403, <<>>)
  ELSE Call(r, "patch.update")

\* After the select: 404 when there is no such jammer, then the comparison of
\* the parent's user_id with the caller (a jammer without parent throws).
patchCheck(r, res) ==
  IF res.error \/ res.data = {} THEN Reply(r, 404, <<>>)
  ELSE IF TheRow(res.data).estabelecimento = {} THEN Catch(r)
  ELSE IF TheRow(TheRow(res.data).estabelecimento).user_id # r.user
       THEN Reply(r, 403, <<>>)
  ELSE Call(r, "patch.update")

patchSelect(c) ==
  /\ req[c].pc = "patch.select"
  /\ \E out \in Outcomes :
       LET r == Mark(req[c], out)
           res == IF out = "ok"
                  THEN single({jammerWithParent(j) : j \in {x \in jammers : x.id = r.id}})
                  ELSE Failed
       IN req' = [req EXCEPT ![c] = IF out = "throw" THEN Catch(r) ELSE patchCheck(r, res)]
  /\ UNCHANGED <<impl, store, snap>>

\* updateJammer that leaves the row as it was.
updateJammer_notApplied(js, id, estado) == js

\* updateJammer that flips the stored state instead of setting the given one.
updateJammer_toggle(js, id, estado) ==
  { IF j.id = id
    THEN [j EXCEPT !.estado_jammer = IF @ = "true" THEN "false" ELSE "true"]
    ELSE j : j \in js }

\* updateJammer without the filter on the id.
updateJammer_everyRow(js, id, estado) ==
  { [j EXCEPT !.estado_jammer = estado] : j \in js }

\* update({ estado_jammer }).eq('id', jammerId): the table after the update.
updateJammer(js, id, estado) ==
  { IF j.id = id THEN [j EXCEPT !.estado_jammer = estado] ELSE j : j \in js }

\* The answer of an insert/update/delete ... .select().single(): 400 on an
\* error, else st with the row.
mutationAnswer(r, res, st) ==
  IF res.error THEN Reply(r, 400, <<>>)
  ELSE Reply(r, st, <<TheRow(res.data)>>)

patchUpdate(c) ==
  /\ req[c].pc = "patch.update"
  /\ \E out \in Outcomes :
       LET r == Mark(req[c], out)
           after == IF out = "ok" THEN updateJammer(jammers, r.id, r.estado) ELSE jammers
           res == IF out = "ok" THEN single({j \in after : j.id = r.id}) ELSE Failed
       IN /\ jammers' = after
          /\ req' = [req EXCEPT ![c] = IF out = "throw" THEN Catch(r) ELSE mutationAnswer(r, res, 200)]
  /\ UNCHANGED <<impl, users, estabelecimento, nextEstab, nextJammer, authUsers, snap>>

----------------------------------------------------------------------------
\* /admin routes.

adminUsuarios(c) ==
  /\ req[c].pc = "admin.usuarios"
  /\ \E out \in Outcomes :
       LET r == Mark(req[c], out) IN
       \E list \in OrderBy(users, "email") :
         req' = [req EXCEPT ![c] =
                   IF out = "throw" THEN Catch(r)
                   ELSE IF out = "err" THEN Reply(r, 500, <<>>)
                   ELSE Reply(r, 200, list)]
  /\ UNCHANGED <<impl, store, snap>>

\* POST /admin/estabelecimento after the select of the user.
criarEstabCheck(r, res) ==
  IF res.error \/ res.data = {} THEN Reply(r, 404, <<>>)
  ELSE Call(r, "admin.estab.insert")

adminEstabUser(c) ==
  /\ req[c].pc = "admin.estab.user"
  /\ \E out \in Outcomes :
       LET r == Mark(req[c], out)
           res == IF out = "ok" THEN single({u \in users : u.id = r.uid}) ELSE Failed
       IN req' = [req EXCEPT ![c] = IF out = "throw" THEN Catch(r) ELSE criarEstabCheck(r, res)]
  /\ UNCHANGED <<impl, store, snap>>

\* insert([{ user_id, nome, cep }]): the row gets the next serial id; user_id
\* references users.
adminEstabInsert(c) ==
  /\ req[c].pc = "admin.estab.insert"
  /\ \E out \in Outcomes :
       LET r == Mark(req[c], out)
           row == [id |-> nextEstab, user_id |-> r.uid, nome |-> r.nome, cep |-> r.cep]
           done == out = "ok" /\ \E u \in users : u.id = r.uid
           res == IF done THEN single({row}) ELSE Failed
       IN /\ out = "ok" => nextEstab <= MaxEstab
          /\ estabelecimento' = IF done THEN estabelecimento \cup {row} ELSE estabelecimento
          /\ nextEstab' = IF done THEN nextEstab + 1 ELSE nextEstab
          /\ req' = [req EXCEPT ![c] = IF out = "throw" THEN Catch(r) ELSE mutationAnswer(r, res, 201)]
  /\ UNCHANGED <<impl, users, jammers, nextJammer, authUsers, snap>>

\* POST /admin/jammer after the select of the establishment.
criarJammerCheck(r, res) ==
  IF res.error \/ res.data = {} THEN Reply(r, 404, <<>>)
  ELSE Call(r, "admin.jammer.insert")

adminJammerEstab(c) ==
  /\ req[c].pc = "admin.jammer.estab"
  /\ \E out \in Outcomes :
       LET r == Mark(req[c], out)
           res == IF out = "ok" THEN single({e \in estabelecimento : e.id = r.id}) ELSE Failed
       IN req' = [req EXCEPT ![c] = IF out = "throw" THEN Catch(r) ELSE criarJammerCheck(r, res)]
  /\ UNCHANGED <<impl, store, snap>>

\* estado_jammer ?? false
estadoOrFalse(estado) == IF estado = "undefined" THEN "false" ELSE estado

\* adminJammerInsert into a table whose id_estabelecimento references nothing.
adminJammerInsert_noReference(c) ==
  /\ req[c].pc = "admin.jammer.insert"
  /\ \E out \in Outcomes :
       LET r == Mark(req[c], out)
           row == [id |-> nextJammer, id_estabelecimento |-> r.id,
                   estado_jammer |-> estadoOrFalse(r.estado)]
           done == out = "ok"
           res == IF done THEN single({row}) ELSE Failed
       IN /\ out = "ok" => nextJammer <= MaxJammers
          /\ jammers' = IF done THEN jammers \cup {row} ELSE jammers
          /\ nextJammer' = IF done THEN nextJammer + 1 ELSE nextJammer
          /\ req' = [req EXCEPT ![c] = IF out = "throw" THEN Catch(r) ELSE mutationAnswer(r, res, 201)]
  /\ UNCHANGED <<impl, users, estabelecimento, nextEstab, authUsers, snap>>

\* insert([{ id_estabelecimento, estado_jammer }]): the row gets the next
\* serial id.  id_estabelecimento is a foreign key to estabelecimento (the
\* selects that embed estabelecimento(user_id) in a jammer and jammers(*) in an
\* establishment rest on it): the insert of a row whose establishment is not
\* stored returns an error.
adminJammerInsert(c) ==
  /\ req[c].pc = "admin.jammer.insert"
  /\ \E out \in Outcomes :
       LET r == Mark(req[c], out)
           row == [id |-> nextJammer, id_estabelecimento |-> r.id,
                   estado_jammer |-> estadoOrFalse(r.estado)]
           done == out = "ok" /\ \E e \in estabelecimento : e.id = r.id
           res == IF done THEN single({row}) ELSE Failed
       IN /\ out = "ok" => nextJammer <= MaxJammers
          /\ jammers' = IF done THEN jammers \cup {row} ELSE jammers
          /\ nextJammer' = IF done THEN nextJammer + 1 ELSE nextJammer
          /\ req' = [req EXCEPT ![c] = IF out = "throw" THEN Catch(r) ELSE mutationAnswer(r, res, 201)]
  /\ UNCHANGED <<impl, users, estabelecimento, nextEstab, authUsers, snap>>

\* select('*, users(email, user_name)'): the establishment with its owner.
estabWithUser(e) ==
  [id |-> e.id, user_id |-> e.user_id, nome |-> e.nome, cep |-> e.cep,
   users |-> {u.email : u \in {x \in users : x.id = e.user_id}}]

adminEstabs(c) ==
  /\ req[c].pc = "admin.estabs"
  /\ \E out \in Outcomes :
       LET r == Mark(req[c], out) IN
       \E list \in OrderBy({estabWithUser(e) : e \in estabelecimento}, "nome") :
         req' = [req EXCEPT ![c] =
                   IF out = "throw" THEN Catch(r)
                   ELSE IF out = "err" THEN Reply(r, 500, <<>>)
                   ELSE Reply(r, 200, list)]
  /\ UNCHANGED <<impl, store, snap>>

adminJammers(c) ==
  /\ req[c].pc = "admin.jammers"
  /\ \E out \in Outcomes :
       LET r == Mark(req[c], out) IN
       \E list \in OrderBy({jammerWithParent(j) : j \in jammers}, "id") :
         req' = [req EXCEPT ![c] =
                   IF out = "throw" THEN Catch(r)
                   ELSE IF out = "err" THEN Reply(r, 500, <<>>)
                   ELSE Reply(r, 200, list)]
  /\ UNCHANGED <<impl, store, snap>>

\* delEstabJammers that deletes no jammer.
delEstabJammers_keeps(c) ==
  /\ req[c].pc = "del.estab.jammers"
  /\ \E out \in Outcomes :
       LET r == Mark(req[c], out) IN
       /\ jammers' = jammers
       /\ req' = [req EXCEPT ![c] = IF out = "throw" THEN Catch(r) ELSE Call(r, "del.estab.estab")]
  /\ UNCHANGED <<impl, users, estabelecimento, nextEstab, nextJammer, authUsers, snap>>

\* DELETE /admin/estabelecimento/:id, first call: the jammers of the
\* establishment are deleted; the result of the call is not looked at.
delEstabJammers(c) ==
  /\ req[c].pc = "del.estab.jammers"
  /\ \E out \in Outcomes :
       LET r == Mark(req[c], out) IN
       /\ jammers' = IF out = "ok"
                     THEN {j \in jammers : j.id_estabelecimento # r.id}
                     ELSE jammers
       /\ req' = [req EXCEPT ![c] = IF out = "throw" THEN Catch(r) ELSE Call(r, "del.estab.estab")]
  /\ UNCHANGED <<impl, users, estabelecimento, nextEstab, nextJammer, authUsers, snap>>

\* DELETE /admin/estabelecimento/:id, second call: the establishment is
\* deleted unless a jammer still references it (the foreign key of jammers;
\* the handler deletes the jammers itself, the key does not cascade).
delEstabEstab(c) ==
  /\ req[c].pc = "del.estab.estab"
  /\ \E out \in Outcomes :
       LET r == Mark(req[c], out)
           done == out = "ok" /\ ~ \E j \in jammers : j.id_estabelecimento = r.id
           gone == IF done THEN {e \in estabelecimento : e.id = r.id} ELSE {}
           res == IF done THEN single(gone) ELSE Failed
       IN /\ estabelecimento' = estabelecimento \ gone
          /\ req' = [req EXCEPT ![c] = IF out = "throw" THEN Catch(r) ELSE mutationAnswer(r, res, 200)]
  /\ UNCHANGED <<impl, users, jammers, nextEstab, nextJammer, authUsers, snap>>

\* DELETE /admin/jammer/:id.
delJammer(c) ==
  /\ req[c].pc = "del.jammer"
  /\ \E out \in Outcomes :
       LET r == Mark(req[c], out)
           gone == IF out = "ok" THEN {j \in jammers : j.id = r.id} ELSE {}
           res == IF out = "ok" THEN single(gone) ELSE Failed
       IN /\ jammers' = jammers \ gone
          /\ req' = [req EXCEPT ![c] = IF out = "throw" THEN Catch(r) ELSE mutationAnswer(r, res, 200)]
  /\ UNCHANGED <<impl, users, estabelecimento, nextEstab, nextJammer, authUsers, snap>>

----------------------------------------------------------------------------
\* POST /signup.

\* select('id').eq('email', email).maybeSingle(): the row when there is exactly
\* one, nothing when there is none, an error when there are several.
maybeSingle(rows) ==
  IF Cardinality(rows) <= 1
  THEN [data |-> rows, error |-> FALSE]
  ELSE [data |-> {}, error |-> TRUE]

\* After the lookup by e-mail; only data is read, the error is not.
signupExistsCheck(r, res) ==
  IF res.data # {} THEN ReplyError(r, 400, "E-mail ja esta cadastrado.")
  ELSE Call(r, "signup.signUp")

signupExists(c) ==
  /\ req[c].pc = "signup.exists"
  /\ \E out \in Outcomes :
       LET r == Mark(req[c], out)
           res == IF out = "ok"
                  THEN maybeSingle({u \in users : u.email = r.email})
                  ELSE Failed
       IN req' = [req EXCEPT ![c] =
                    IF out = "throw" THEN Catch(r) ELSE signupExistsCheck(r, res)]
  /\ UNCHANGED <<impl, store, snap>>

\* The ids the identity provider hands out, in the order it uses them.
IdPool == <<"i1", "i2", "i3">>

\* The ids of the pool that are taken: by an identity, by a users row, or by
\* a sign-up that has not inserted its row yet.
TakenIds ==
  {a.id : a \in authUsers} \cup {u.id : u \in users}
    \cup {req[c].user : c \in Clients}

HasFreshId == \E i \in 1..Len(IdPool) : IdPool[i] \notin TakenIds

FreshId ==
  IdPool[CHOOSE i \in 1..Len(IdPool) :
           /\ IdPool[i] \notin TakenIds
           /\ \A k \in 1..(i - 1) : IdPool[k] \in TakenIds]

\* supabase.auth.signUp({ email, password }).  A new e-mail gets an identity.
\* For a registered e-mail the provider answers, depending on its settings,
\* with an error or with an obfuscated user that carries an id of no identity;
\* kind says which.
signUp(email, kind) ==
  IF ~ \E a \in authUsers : a.email = email
  THEN [user |-> FreshId, error |-> FALSE,
        identities |-> authUsers \cup {[id |-> FreshId, email |-> email]}]
  ELSE IF kind = "obfuscated"
       THEN [user |-> FreshId, error |-> FALSE, identities |-> authUsers]
       ELSE [user |-> "", error |-> TRUE, identities |-> authUsers]

\* After signUp: 400 on an error or a missing user, else the insert follows.
signupAfterSignUp(r, res) ==
  IF res.error THEN ReplyError(r, 400, "signUpError.message")
  ELSE IF res.user = "" THEN ReplyError(r, 400, "Erro ao criar usuario.")
  ELSE Call([r EXCEPT !.user = res.user], "signup.insert")

signupSignUp(c) ==
  /\ req[c].pc = "signup.signUp"
  /\ \E out \in Outcomes, kind \in {"rejected", "obfuscated"} :
       LET r == Mark(req[c], out)
           res == IF out = "ok" THEN signUp(r.email, kind)
                  ELSE [user |-> "", error |-> TRUE, identities |-> authUsers]
       IN /\ (out = "ok" /\ ~(kind = "rejected" /\ \E a \in authUsers : a.email = r.email))
             => HasFreshId
          /\ authUsers' = res.identities
          /\ req' = [req EXCEPT ![c] =
                       IF out = "throw" THEN Catch(r) ELSE signupAfterSignUp(r, res)]
  /\ UNCHANGED <<impl, users, estabelecimento, jammers, nextEstab, nextJammer, snap>>

\* insertUser storing the row with the administrator flag set.
insertUser_asAdmin(us, id, email) ==
  IF \E u \in us : u.id = id
  THEN [users |-> us, error |-> TRUE]
  ELSE [users |-> us \cup {[id |-> id, email |-> email, is_admin |-> "true"]},
        error |-> FALSE]

\* insert([{ id: userId, email, user_name: email, is_admin: false }]): id is
\* the key of users.
insertUser(us, id, email) ==
  IF \E u \in us : u.id = id
  THEN [users |-> us, error |-> TRUE]
  ELSE [users |-> us \cup {[id |-> id, email |-> email, is_admin |-> "false"]},
        error |-> FALSE]

signupInsert(c) ==
  /\ req[c].pc = "signup.insert"
  /\ \E out \in Outcomes :
       LET r == Mark(req[c], out)
           res == IF out = "ok" THEN insertUser(users, r.user, r.email)
                  ELSE [users |-> users, error |-> TRUE]
       IN /\ users' = res.users
          /\ req' = [req EXCEPT ![c] =
                       IF out = "throw" THEN Catch(r)
                       ELSE IF res.error THEN ReplyError(r, 400, "insertError.message")
                       ELSE Reply(r, 201, <<>>)]
  /\ UNCHANGED <<impl, estabelecimento, jammers, nextEstab, nextJammer, authUsers, snap>>

----------------------------------------------------------------------------
\* POST /reset-password.

\* await supabase.auth.setSession({ access_token }): the result is not read.
resetSetSession(c) ==
  /\ req[c].pc = "reset.setSession"
  /\ \E out \in Outcomes :
       LET r == Mark(req[c], out)
       IN req' = [req EXCEPT ![c] =
                    IF out = "throw" THEN Catch(r) ELSE Call(r, "reset.updateUser")]
  /\ UNCHANGED <<impl, store, snap>>

\* supabase.auth.updateUser({ password }) acts on the session of the shared
\* client: with a token the provider rejected, it fails unless the client
\* still holds the session of another request.
resetUpdateUser(c) ==
  /\ req[c].pc = "reset.updateUser"
  /\ \E out \in Outcomes, stale \in BOOLEAN :
       LET r == Mark(req[c], out)
           error == out # "ok" \/ (getUser(<<r.access_token>>).error /\ ~stale)
       IN req' = [req EXCEPT ![c] =
                    IF out = "throw" THEN Catch(r)
                    ELSE IF error THEN ReplyError(r, 400, "Erro ao atualizar senha.")
                    ELSE Reply(r, 200, <<>>)]
  /\ UNCHANGED <<impl, store, snap>>

AuthHandle(c) ==
  \/ signupExists(c)
  \/ signupSignUp(c)
  \/ signupInsert(c)
  \/ resetSetSession(c)
  \/ resetUpdateUser(c)

----------------------------------------------------------------------------
\* The handler steps that follow the arrival of a request.
Handle(c) ==
  \/ getUserReturn(c)
  \/ isAdminReturn(c)
  \/ estabList(c)
  \/ estabListFull(c)
  \/ completoEstabs(c)
  \/ completoJammers(c)
  \/ estabOwner(c)
  \/ jammersByEstab(c)
  \/ patchSelect(c)
  \/ patchUpdate(c)
  \/ adminUsuarios(c)
  \/ adminEstabUser(c)
  \/ adminEstabInsert(c)
  \/ adminJammerEstab(c)
  \/ adminJammerInsert(c)
  \/ adminEstabs(c)
  \/ adminJammers(c)
  \/ delEstabJammers(c)
  \/ delEstabEstab(c)
  \/ delJammer(c)

\* Requests are served one after the other.
Next == Start("c1") \/ Repeat("c1") \/ Finish("c1") \/ Handle("c1")

Spec == Init /\ [][Next]_vars

----------------------------------------------------------------------------
\* The jammer update under every store the administrator can build: the
\* administrator creates and deletes establishments and jammers, and any
\* caller sends PATCH /jammer/:jammerId, possibly twice in a row.

AdminHeader == [present |-> TRUE, text |-> <<"Bearer ", "t1">>]

SetupRoutes ==
  { "POST /admin/estabelecimento", "POST /admin/jammer",
    "DELETE /admin/estabelecimento/:id", "DELETE /admin/jammer/:id" }

\* The establishment name plays no part in PATCH /jammer/:jammerId: the stores
\* are built with one name.
StartSetup(c) ==
  \E rt \in SetupRoutes : \E p \in {q \in Params(rt) : q.nome # "b"} :
    Send(c, rt, AdminHeader, p)

StartPatch(c) ==
  \E h \in Headers : \E p \in Params("PATCH /jammer/:jammerId") :
    Send(c, "PATCH /jammer/:jammerId", h, p)

RepeatPatch(c) == req[c].route = "PATCH /jammer/:jammerId" /\ Repeat(c)

PatchHandle(c) ==
  \/ getUserReturn(c)
  \/ isAdminReturn(c)
  \/ patchSelect(c)
  \/ patchUpdate(c)
  \/ adminEstabUser(c)
  \/ adminEstabInsert(c)
  \/ adminJammerEstab(c)
  \/ adminJammerInsert(c)
  \/ delEstabJammers(c)
  \/ delEstabEstab(c)
  \/ delJammer(c)

NextPatch ==
  StartSetup("c1") \/ StartPatch("c1") \/ RepeatPatch("c1") \/ Finish("c1") \/ PatchHandle("c1")

SpecPatch == Init /\ [][NextPatch]_vars

----------------------------------------------------------------------------
\* The bulk read under the stores the administrator can build: the
\* administrator creates establishments and jammers, and any caller sends
\* GET /user/:userId/estabelecimentos-completo.

CompletoRoute == "GET /user/:userId/estabelecimentos-completo"

\* The state of a jammer plays no part in the bulk read: the jammers are
\* created with the default state.
StartCreate(c) ==
  \E rt \in {"POST /admin/estabelecimento", "POST /admin/jammer"} :
    \E p \in {q \in Params(rt) : q.estado = "undefined"} :
      Send(c, rt, AdminHeader, p)

StartRead(c) ==
  \E h \in Headers : \E p \in Params(CompletoRoute) : Send(c, CompletoRoute, h, p)

ReadHandle(c) ==
  \/ getUserReturn(c)
  \/ isAdminReturn(c)
  \/ adminEstabUser(c)
  \/ adminEstabInsert(c)
  \/ adminJammerEstab(c)
  \/ adminJammerInsert(c)
  \/ estabListFull(c)
  \/ completoEstabs(c)
  \/ completoJammers(c)

NextRead == StartCreate("c1") \/ StartRead("c1") \/ Finish("c1") \/ ReadHandle("c1")

SpecRead == Init /\ [][NextRead]_vars

----------------------------------------------------------------------------
\* No collaborator call of a request in flight has failed.
NoFailure == \A c \in Clients : ~req[c].fail

----------------------------------------------------------------------------
\* The administrator's creations and deletions when the server can stop at
\* any await of a handler and be started again; the tables outlive the stop.

SetupHandle(c) ==
  \/ getUserReturn(c)
  \/ isAdminReturn(c)
  \/ adminEstabUser(c)
  \/ adminEstabInsert(c)
  \/ adminJammerEstab(c)
  \/ adminJammerInsert(c)
  \/ delEstabJammers(c)
  \/ delEstabEstab(c)
  \/ delJammer(c)

\* The server stops while the request awaits a collaborator call: the call
\* has no effect and the request is never answered.
Crash(c) ==
  /\ req[c].pc \notin {"idle", "done", "crashed"}
  /\ req' = [req EXCEPT ![c] = [@ EXCEPT !.pc = "crashed"]]
  /\ UNCHANGED <<impl, store, snap>>

\* The server is started again and takes new requests.
Restart(c) ==
  /\ req[c].pc = "crashed"
  /\ req' = [req EXCEPT ![c] = Idle]
  /\ snap' = Snapshot
  /\ UNCHANGED <<impl, store>>

NextCrash ==
  StartSetup("c1") \/ Finish("c1") \/ SetupHandle("c1") \/ Crash("c1") \/ Restart("c1")

SpecCrash == Init /\ [][NextCrash]_vars

----------------------------------------------------------------------------
\* Two administrator sessions at once: the handler steps of their creations
\* and deletions interleave in every way.

\* With two requests in flight the tables at the arrival of one request say
\* nothing about the other: snap is left alone.
ReceiveSetup(c) ==
  /\ \E rt \in SetupRoutes :
       \E p \in {q \in Params(rt) :
                    q.nome # "b" /\ q.estado = "undefined" /\ q.uid \in {"", "u2"}} :
         Receive(c, rt, AdminHeader, p)
  /\ UNCHANGED snap

Answer(c) ==
  /\ req[c].pc = "done"
  /\ req' = [req EXCEPT ![c] = Idle]
  /\ UNCHANGED <<impl, store, snap>>

\* The second session sends deletions.
ReceiveDelete(c) ==
  /\ \E rt \in {"DELETE /admin/estabelecimento/:id", "DELETE /admin/jammer/:id"} :
       \E p \in Params(rt) : Receive(c, rt, AdminHeader, p)
  /\ UNCHANGED snap

NextRace ==
  \/ ReceiveSetup("c1")
  \/ ReceiveDelete("c2")
  \/ \E c \in Clients : Answer(c) \/ (SetupHandle(c) /\ NoFailure')

SpecRace == Init /\ [][NextRace]_vars

----------------------------------------------------------------------------
\* Jammer updates racing with the administrator: the first client sends
\* PATCH /jammer/1 as the administrator or as the user u2 while the second
\* one, an administrator session, creates and deletes.

ReceiveUpdate(c) ==
  /\ \E t \in {"t1", "t2"} :
       \E p \in {q \in Params("PATCH /jammer/:jammerId") :
                    q.id = 1 /\ q.estado # "undefined"} :
         Receive(c, "PATCH /jammer/:jammerId",
                 [present |-> TRUE, text |-> <<"Bearer ", t>>], p)
  /\ UNCHANGED snap

NextRaceUpdate ==
  \/ ReceiveUpdate("c1")
  \/ ReceiveSetup("c2")
  \/ \E c \in Clients : Answer(c) \/ (PatchHandle(c) /\ NoFailure')

SpecRaceUpdate == Init /\ [][NextRaceUpdate]_vars

----------------------------------------------------------------------------
\* Sign-up and password reset, two clients at once.

NoHeader == [present |-> FALSE, text |-> <<>>]

StartAuth(c) == \E rt \in AuthRoutes : \E p \in Params(rt) : Send(c, rt, NoHeader, p)

\* The second client sends sign-ups that pass the validation.
StartRival(c) ==
  \E p \in {q \in Params("POST /signup") :
               validateEmail(q.email) /\ Len(q.password) >= 6} :
    Send(c, "POST /signup", NoHeader, p)

NextSignup ==
  \/ StartAuth("c1")
  \/ StartRival("c2")
  \/ \E c \in Clients : Finish(c) \/ AuthHandle(c)

SpecSignup == Init /\ [][NextSignup]_vars

----------------------------------------------------------------------------
\* Every route that writes a table, one request after the other: sign-up,
\* the administrator's creations and deletions, and the jammer update.

\* An update of the first jammer by the administrator or by the user u2.
StartUpdate(c) ==
  \E t \in {"t1", "t2"} :
    \E p \in {q \in Params("PATCH /jammer/:jammerId") :
                 q.id = 1 /\ q.estado # "undefined"} :
      Send(c, "PATCH /jammer/:jammerId", [present |-> TRUE, text |-> <<"Bearer ", t>>], p)

\* A sign-up of the address that has no identity yet.
StartSignup(c) ==
  \E p \in {q \in Params("POST /signup") :
               q.email = "n@x.io" /\ Len(q.password) >= 6} :
    Send(c, "POST /signup", NoHeader, p)

\* The administrator's creations and deletions, jammers being created with
\* the default state.
StartAdminWrite(c) ==
  \E rt \in SetupRoutes :
    \E p \in {q \in Params(rt) : q.nome # "b" /\ q.estado = "undefined"} :
      Send(c, rt, AdminHeader, p)

\* The collaborator calls of the sign-up may fail; those of the other routes
\* go through.
NextWrites ==
  \/ StartSignup("c1")
  \/ StartAdminWrite("c1")
  \/ StartUpdate("c1")
  \/ Finish("c1")
  \/ signupExists("c1")
  \/ signupSignUp("c1")
  \/ signupInsert("c1")
  \/ (PatchHandle("c1") /\ NoFailure')

SpecWrites == Init /\ [][NextWrites]_vars

----------------------------------------------------------------------------
\* Vocabulary of the properties.

PatchRoute == "PATCH /jammer/:jammerId"
JammersRoute == "GET /estabelecimento/:estabelecimentoId/jammers"
SelfPathRoutes ==
  { "GET /user/:userId/estabelecimentos",
    "GET /user/:userId/estabelecimentos-completo" }

Answered(r) == r.pc = "done"

\* The tables are as they were when the request arrived.
TablesUnchanged ==
  /\ users = snap.users
  /\ estabelecimento = snap.estabelecimento
  /\ jammers = snap.jammers

\* The header carries a token that the identity provider resolves.
Resolves(hdr) == hdr.present /\ ~getUser(tokenOf(hdr)).error
PrincipalOf(hdr) == getUser(tokenOf(hdr)).user

IsAdminUser(u) == \E x \in users : x.id = u /\ x.is_admin = "true"

\* When the request arrived: the jammers with this id, and the users owning
\* their parent establishments.
JammerAtArrival(id) == {j \in snap.jammers : j.id = id}
OwnersAtArrival(id) ==
  { e.user_id : e \in {x \in snap.estabelecimento :
                         \E j \in JammerAtArrival(id) : j.id_estabelecimento = x.id} }
EstabAtArrival(id) == {e \in snap.estabelecimento : e.id = id}

Count(seq, x) == Cardinality({i \in 1..Len(seq) : seq[i] = x})

----------------------------------------------------------------------------
\* C1: a request to a protected route that carries no Authorization header
\* is answered 401 whatever its parameters and body are, and the users,
\* estabelecimento and jammers tables stay as they were.
C1_NoTokenUnauthenticated ==
  \A c \in Clients :
    (req[c].route \in Routes /\ ~req[c].hdr.present) =>
      /\ TablesUnchanged
      /\ Answered(req[c]) => req[c].status = 401

\* C2: on the two /user/:userId routes, a token that resolves to a principal
\* other than userId is answered 403 and no row is returned (no collaborator
\* call of the request failing).
C2_SelfPathForbidden ==
  \A c \in Clients :
    ( /\ Answered(req[c])
      /\ req[c].route \in SelfPathRoutes
      /\ Resolves(req[c].hdr)
      /\ PrincipalOf(req[c].hdr) # req[c].uid
      /\ ~req[c].fail ) =>
      (req[c].status = 403 /\ req[c].rows = <<>>)

\* C3: an authenticated PATCH /jammer/:id carrying estado_jammer is answered
\* 404 when no jammer has that id, whoever the caller is, and 403 when the
\* jammer exists and its parent establishment belongs to another user; in
\* both cases the jammers table is unchanged (no collaborator call of the
\* request failing).
C3_PatchNotFoundThenForbidden ==
  \A c \in Clients :
    ( /\ Answered(req[c])
      /\ req[c].route = PatchRoute
      /\ req[c].user # ""
      /\ req[c].estado # "undefined"
      /\ ~req[c].fail ) =>
      /\ JammerAtArrival(req[c].id) = {} =>
           (req[c].status = 404 /\ jammers = snap.jammers)
      /\ (JammerAtArrival(req[c].id) # {} /\ OwnersAtArrival(req[c].id) # {}
            /\ req[c].user \notin OwnersAtArrival(req[c].id)) =>
           (req[c].status = 403 /\ jammers = snap.jammers)

\* C3 witness: a PATCH by a principal who does not own the parent of an
\* existing jammer has been answered 403.
C3_Witness ==
  \E c \in Clients :
    /\ Answered(req[c])
    /\ req[c].route = PatchRoute
    /\ req[c].estado # "undefined"
    /\ req[c].user # ""
    /\ ~req[c].fail
    /\ JammerAtArrival(req[c].id) # {}
    /\ OwnersAtArrival(req[c].id) # {}
    /\ req[c].user \notin OwnersAtArrival(req[c].id)
    /\ req[c].status = 403

\* C4: on an /admin route, a resolved principal whose users row is missing or
\* not flagged is_admin is answered 403, and the handler issues no store
\* call beyond the admin lookup (no collaborator call of the request
\* failing).
C4_AdminOnly ==
  \A c \in Clients :
    ( /\ Answered(req[c])
      /\ IsAdminRoute(req[c].route)
      /\ req[c].user # ""
      /\ ~IsAdminUser(req[c].user)
      /\ ~req[c].fail ) =>
      (req[c].status = 403 /\ req[c].calls = <<"getUser", "users.is_admin">>)

\* C5: GET /estabelecimento/:id/jammers with a resolved principal is answered
\* 404 when the establishment does not exist, 403 without rows when it
\* belongs to another user, and 200 when it belongs to the principal (no
\* collaborator call of the request failing).
C5_JammersOfOwnEstab ==
  \A c \in Clients :
    ( /\ Answered(req[c])
      /\ req[c].route = JammersRoute
      /\ Resolves(req[c].hdr)
      /\ ~req[c].fail ) =>
      /\ EstabAtArrival(req[c].id) = {} => req[c].status = 404
      /\ (\E e \in EstabAtArrival(req[c].id) : e.user_id # PrincipalOf(req[c].hdr)) =>
           (req[c].status = 403 /\ req[c].rows = <<>>)
      /\ (\E e \in EstabAtArrival(req[c].id) : e.user_id = PrincipalOf(req[c].hdr)) =>
           req[c].status = 200

\* C6: an admin-flagged principal is never answered 403 by PATCH /jammer/:id,
\* GET /estabelecimento/:id/jammers or the /user/:userId routes.
C6_AdminVoidsOwnership ==
  \A c \in Clients :
    ( /\ Answered(req[c])
      /\ req[c].route \in UserRoutes
      /\ Resolves(req[c].hdr)
      /\ IsAdminUser(PrincipalOf(req[c].hdr)) ) =>
      req[c].status # 403

\* C6 as amended: the admin flag voids ownership checks on the /admin routes
\* only.  There an admin-flagged principal is never answered 403; on
\* PATCH /jammer/:id an admin-flagged principal who does not own the parent
\* establishment of an existing jammer is answered 403 and the jammers table
\* is unchanged (no collaborator call of the request failing).
C6_AdminVoidsOwnershipOnAdminRoutesOnly ==
  \A c \in Clients :
    ( /\ Answered(req[c])
      /\ req[c].user # ""
      /\ IsAdminUser(req[c].user)
      /\ ~req[c].fail ) =>
      /\ IsAdminRoute(req[c].route) => req[c].status # 403
      /\ ( /\ req[c].route = PatchRoute
           /\ req[c].estado # "undefined"
           /\ OwnersAtArrival(req[c].id) # {}
           /\ req[c].user \notin OwnersAtArrival(req[c].id) ) =>
           (req[c].status = 403 /\ jammers = snap.jammers)

\* C6 witness: the administrator has been answered 403 on the jammer of
\* another user's establishment.
C6_Witness ==
  \E c \in Clients :
    /\ Answered(req[c])
    /\ req[c].route = PatchRoute
    /\ IsAdminUser(req[c].user)
    /\ ~req[c].fail
    /\ OwnersAtArrival(req[c].id) # {}
    /\ req[c].user \notin OwnersAtArrival(req[c].id)
    /\ req[c].status = 403

\* C7: a request whose token is absent or rejected by the identity provider
\* ends 401; the first collaborator call of a request is the identity
\* resolution; and 404 is answered only to an authenticated request (no
\* collaborator call of the request failing).
C7_IdentityFirst ==
  \A c \in Clients :
    /\ (req[c].calls # <<>>) => req[c].calls[1] = "getUser"
    /\ (Answered(req[c]) /\ ~req[c].fail) =>
         /\ ~Resolves(req[c].hdr) => req[c].status = 401
         /\ req[c].status = 404 => req[c].user # ""

\* C8: with an absent or empty token the identity provider is not called,
\* and no request calls it more than once.
C8_NoProviderCallWithoutToken ==
  \A c \in Clients :
    /\ (req[c].route \in Routes /\ tokenMissing(req[c].hdr)) =>
         Count(req[c].calls, "getUser") = 0
    /\ Count(req[c].calls, "getUser") <= 1

\* C9: a PATCH /jammer/:id with estado_jammer = v by the owner of the parent
\* establishment is answered 200 with the jammer row carrying v, and the
\* stored estado_jammer of that jammer is then v (no collaborator call of the
\* request failing).
C9_OwnerPatchSetsState ==
  \A c \in Clients :
    ( /\ Answered(req[c])
      /\ req[c].route = PatchRoute
      /\ req[c].estado # "undefined"
      /\ Resolves(req[c].hdr)
      /\ PrincipalOf(req[c].hdr) \in OwnersAtArrival(req[c].id)
      /\ ~req[c].fail ) =>
      /\ req[c].status = 200
      /\ Len(req[c].rows) = 1
      /\ req[c].rows[1].id = req[c].id
      /\ req[c].rows[1].estado_jammer = req[c].estado
      /\ \E j \in jammers : j.id = req[c].id
      /\ \A j \in jammers : j.id = req[c].id => j.estado_jammer = req[c].estado

\* C9 witness: an owner's PATCH has been answered 200 and has changed the
\* stored state of the jammer.
C9_Witness ==
  \E c \in Clients :
    /\ Answered(req[c])
    /\ req[c].route = PatchRoute
    /\ req[c].status = 200
    /\ PrincipalOf(req[c].hdr) \in OwnersAtArrival(req[c].id)
    /\ \E j \in JammerAtArrival(req[c].id) : j.estado_jammer # req[c].estado
    /\ \E j \in jammers : j.id = req[c].id /\ j.estado_jammer = req[c].estado

\* C10: when a PATCH /jammer/:id that was answered 200 is sent again at once
\* (same caller, jammer and state value), the second one is answered 200 too
\* and leaves the tables as the first one left them (no collaborator call of
\* the second request failing).
C10_PatchIdempotent ==
  \A c \in Clients :
    ( /\ Answered(req[c])
      /\ req[c].route = PatchRoute
      /\ req[c].prevStatus = 200
      /\ ~req[c].fail ) =>
      (req[c].status = 200 /\ TablesUnchanged)

\* C10 witness: the second of two identical PATCH requests has been answered
\* 200.
C10_Witness ==
  \E c \in Clients :
    /\ Answered(req[c])
    /\ req[c].route = PatchRoute
    /\ req[c].prevStatus = 200
    /\ ~req[c].fail
    /\ req[c].status = 200

----------------------------------------------------------------------------
SignupRoute == "POST /signup"
ResetRoute == "POST /reset-password"

\* C11: a sign-up whose e-mail or password is missing, whose e-mail fails the
\* syntactic check or whose password has fewer than 6 characters is answered
\* 400 without any call to the identity provider or to the users table; a
\* password reset whose new password has fewer than 6 characters is answered
\* 400 without any call to the identity provider.
C11_SignupValidation ==
  \A c \in Clients :
    /\ ( /\ req[c].route = SignupRoute
         /\ \/ req[c].email = ""
            \/ req[c].password = <<>>
            \/ ~validateEmail(req[c].email)
            \/ Len(req[c].password) < 6 ) =>
         (Answered(req[c]) /\ req[c].status = 400 /\ req[c].calls = <<>>)
    /\ (req[c].route = ResetRoute /\ Len(req[c].password) < 6) =>
         (Answered(req[c]) /\ req[c].status = 400 /\ req[c].calls = <<>>)

\* C11 witness: a sign-up with a well-formed e-mail and a password of five
\* characters has been answered 400.
C11_Witness ==
  \E c \in Clients :
    /\ req[c].route = SignupRoute
    /\ validateEmail(req[c].email)
    /\ Len(req[c].password) = 5
    /\ Answered(req[c])
    /\ req[c].status = 400
    /\ req[c].msg = "A senha deve ter no minimo 6 caracteres."

DeleteEstabRoute == "DELETE /admin/estabelecimento/:id"

\* The first half of C12: the delete of an existing establishment by an
\* administrator removes the establishment and its jammers and nothing else.
DeleteEstabRemoves ==
  \A c \in Clients :
    ( /\ Answered(req[c])
      /\ req[c].route = DeleteEstabRoute
      /\ IsAdminUser(req[c].user)
      /\ ~req[c].fail
      /\ EstabAtArrival(req[c].id) # {} ) =>
      /\ req[c].status = 200
      /\ jammers = {j \in snap.jammers : j.id_estabelecimento # req[c].id}
      /\ estabelecimento = snap.estabelecimento \ EstabAtArrival(req[c].id)
      /\ users = snap.users

\* C12: DELETE /admin/estabelecimento/:id by an administrator on an existing
\* establishment removes its jammers and its row and leaves every other row
\* as it was; the same delete sent again is answered 404 and changes nothing
\* (no collaborator call of the request failing).
C12_CascadeDeleteThenNotFound ==
  /\ DeleteEstabRemoves
  /\ \A c \in Clients :
       ( /\ Answered(req[c])
         /\ req[c].route = DeleteEstabRoute
         /\ req[c].prevStatus = 200
         /\ ~req[c].fail ) =>
         (req[c].status = 404 /\ TablesUnchanged)

\* No jammer without its establishment, no establishment without its user.
NoOrphans ==
  /\ \A j \in jammers : \E e \in estabelecimento : e.id = j.id_estabelecimento
  /\ \A e \in estabelecimento : \E u \in users : u.id = e.user_id

\* The request is a delete of an establishment that stopped after its first
\* call (the delete of the jammers) went through and before the second one
\* (the delete of the establishment) had any effect.
StoppedBetweenDeletes(r) ==
  /\ r.route = DeleteEstabRoute
  /\ r.pc = "crashed"
  /\ ~r.fail
  /\ Len(r.calls) = 4
  /\ r.calls[4] = "del.estab.estab"

\* C13: when the handling of a cascade delete stops between its two calls,
\* the store holds jammers whose establishment no longer exists.
C13_CrashLeavesOrphanJammers ==
  \A c \in Clients :
    (StoppedBetweenDeletes(req[c]) /\ EstabAtArrival(req[c].id) # {}) =>
      \E j \in jammers : ~ \E e \in estabelecimento : e.id = j.id_estabelecimento

\* C13 as amended: the two deletes are separate calls, jammers first.  When
\* the handling stops between them, the jammers of the establishment are
\* gone, the establishment row is still stored, every other row is as it
\* was, and no jammer is left without its establishment.
C13_CrashLeavesEstabWithoutJammers ==
  \A c \in Clients :
    (StoppedBetweenDeletes(req[c]) /\ EstabAtArrival(req[c].id) # {}) =>
      /\ jammers = {j \in snap.jammers : j.id_estabelecimento # req[c].id}
      /\ estabelecimento = snap.estabelecimento
      /\ users = snap.users
      /\ NoOrphans

\* C13 witness: a delete of an establishment that had jammers has stopped
\* between its two calls.
C13_Witness ==
  \E c \in Clients :
    /\ StoppedBetweenDeletes(req[c])
    /\ EstabAtArrival(req[c].id) # {}
    /\ \E j \in snap.jammers : j.id_estabelecimento = req[c].id
    /\ ~ \E j \in jammers : j.id_estabelecimento = req[c].id

\* The elements of a list.
Range(seq) == {seq[i] : i \in 1..Len(seq)}

\* The establishments of user uid and their jammers when the request arrived.
EstabsOf(uid) == {e \in snap.estabelecimento : e.user_id = uid}
JammersOf(uid) ==
  {j \in snap.jammers : \E e \in EstabsOf(uid) : e.id = j.id_estabelecimento}

\* C14: a bulk read answered 200 lists the establishments of userId in
\* ascending order of nome, whatever the order in which the jammers lookups
\* came back; each establishment carries its own jammers and a total_jammers
\* equal to their number, and the top-level total_jammers is the sum of these
\* numbers (no collaborator call of the request failing).
C14_BulkReadKeepsOrder ==
  \A c \in Clients :
    ( /\ Answered(req[c])
      /\ req[c].route = CompletoRoute
      /\ req[c].status = 200
      /\ ~req[c].fail ) =>
      LET rows == req[c].rows IN
      /\ Len(rows) = Cardinality(EstabsOf(req[c].uid))
      /\ {rows[i].id : i \in 1..Len(rows)} = {e.id : e \in EstabsOf(req[c].uid)}
      /\ \A i, k \in 1..Len(rows) :
           i < k => StrRank(rows[i].nome) <= StrRank(rows[k].nome)
      /\ \A i \in 1..Len(rows) :
           /\ \E e \in EstabsOf(req[c].uid) :
                e.id = rows[i].id /\ e.nome = rows[i].nome /\ e.user_id = rows[i].user_id
           /\ Range(rows[i].jammers) =
                {j \in snap.jammers : j.id_estabelecimento = rows[i].id}
           /\ rows[i].total_jammers = Len(rows[i].jammers)
           /\ Len(rows[i].jammers) = Cardinality(Range(rows[i].jammers))
      /\ req[c].total = Cardinality(JammersOf(req[c].uid))

\* C14 witness: a bulk read served by one lookup per establishment has been
\* answered with two establishments whose order by nome is not their order
\* by id, the two holding different jammers.
C14_Witness ==
  \E c \in Clients :
    /\ impl = "API_node"
    /\ Answered(req[c])
    /\ req[c].route = CompletoRoute
    /\ req[c].status = 200
    /\ ~req[c].fail
    /\ Len(req[c].rows) = 2
    /\ req[c].rows[1].id > req[c].rows[2].id
    /\ req[c].rows[1].nome # req[c].rows[2].nome
    /\ req[c].rows[1].total_jammers # req[c].rows[2].total_jammers
    /\ req[c].total > 0

\* C15: once a collaborator call of a request has failed, by throwing or by
\* returning an error value, the request is answered 500 at once: it is not
\* answered with another status and it issues no further call.
C15_CollaboratorFailureIsInternalError ==
  \A c \in Clients :
    req[c].fail => (Answered(req[c]) /\ req[c].status = 500)

\* C16: in every reachable state the administrators are the users that were
\* administrators initially, with their rows unchanged, and every users row
\* added since has is_admin false.
C16_AdminFlagsNeverChange ==
  /\ {u \in users : u.is_admin = "true"} = {u \in InitUsers : u.is_admin = "true"}
  /\ \A u \in InitUsers : u \in users
  /\ \A u \in users \ InitUsers : u.is_admin = "false"

\* C16 witness: a sign-up has been answered 201 and its users row is stored.
C16_Witness ==
  \E c \in Clients :
    /\ Answered(req[c])
    /\ req[c].route = SignupRoute
    /\ req[c].status = 201
    /\ \E u \in users \ InitUsers : u.id = req[c].user /\ u.email = req[c].email

CreateJammerRoute == "POST /admin/jammer"

C18_EmailsStayUnique ==
  /\ \A c \in Clients :
       ( /\ Answered(req[c])
         /\ req[c].route = SignupRoute
         /\ Len(req[c].password) >= 6
         /\ \E u \in InitUsers : u.email = req[c].email
         /\ ~req[c].fail ) =>
         /\ req[c].status = 400
         /\ req[c].msg = "E-mail ja esta cadastrado."
         /\ req[c].calls = <<"signup.exists">>
  /\ \A u, v \in users : u.email = v.email => u = v

\* One step of the system keeps the parent of every jammer and the owner of
\* every establishment, and changes the state of a jammer only as the update
\* of a PATCH /jammer/:id for that jammer whose principal owns the jammer's
\* parent establishment when the update is made.
OnlyOwnerPatchChangesState ==
  /\ \A j \in jammers : \A k \in jammers' :
       j.id = k.id =>
         /\ k.id_estabelecimento = j.id_estabelecimento
         /\ k.estado_jammer # j.estado_jammer =>
              \E c \in Clients :
                /\ req[c].route = PatchRoute
                /\ req[c].pc = "patch.update"
                /\ req'[c].pc = "done"
                /\ req[c].id = j.id
                /\ Resolves(req[c].hdr)
                /\ req[c].user = PrincipalOf(req[c].hdr)
                /\ \E e \in estabelecimento :
                     e.id = j.id_estabelecimento /\ e.user_id = req[c].user
  /\ \A e \in estabelecimento : \A f \in estabelecimento' :
       e.id = f.id => f.user_id = e.user_id

\* C19: under every interleaving, the state of a stored jammer is changed
\* only by a PATCH /jammer/:id of the owner of its parent establishment at
\* the moment of the update; a PATCH changes no other jammer and no parent
\* link, and no route changes the owner of an establishment.
C19_OnlyOwnerPatchChangesState == [][OnlyOwnerPatchChangesState]_vars

\* C19 witness: a PATCH passed its ownership check, the administrator deleted
\* the jammer before the update, and the update found no row.
C19_Witness ==
  /\ req["c1"].route = PatchRoute
  /\ Answered(req["c1"])
  /\ ~req["c1"].fail
  /\ Len(req["c1"].calls) = 3
  /\ req["c1"].calls[3] = "patch.update"
  /\ req["c1"].status = 400
  /\ ~ \E j \in jammers : j.id = req["c1"].id

\* The identity a sign-up request created at the provider, and the users row
\* it inserted: ids of the provider are used once, so the id the request got
\* from signUp tells its identity and its row from every other.
IdentityCreated(r) ==
  r.user # "" /\ [id |-> r.user, email |-> r.email] \in authUsers \ InitAuth

UserInserted(r) ==
  r.user # ""
    /\ [id |-> r.user, email |-> r.email, is_admin |-> "false"] \in users \ InitUsers

\* C20: when a sign-up has been answered, it created an identity for its
\* e-mail exactly if it inserted the users row with the same id, that e-mail
\* and is_admin false, and it is answered 201 exactly in that case; a sign-up
\* answered with an error created no identity and inserted no row.
C20_SignupAllOrNothing ==
  \A c \in Clients :
    (Answered(req[c]) /\ req[c].route = SignupRoute) =>
      /\ IdentityCreated(req[c]) <=> UserInserted(req[c])
      /\ req[c].status = 201 <=> (IdentityCreated(req[c]) /\ UserInserted(req[c]))
      /\ req[c].status # 201 => (~IdentityCreated(req[c]) /\ ~UserInserted(req[c]))

====
